---- MODULE Spec2Model ----
(***************************************************************************)
(* Book.IA: the content-generation pipeline (useContentGeneration hook,    *)
(* its monolithic predecessor in App.tsx, and the openAIService outline    *)
(* parser), the clipboard export and the page layout of the PDF export.    *)
(* Strings are sequences of one-character strings.                         *)
(***************************************************************************)
EXTENDS Integers, Sequences, FiniteSets, TLC

VARIABLES
  variant,       \* which version of generateContent is built
  service,       \* which version of generateSubtopics is built
  isGenerating,  \* useState(false)
  progress,      \* useState({ current: 0, total: 0 })
  chapters,      \* useState([])
  runs,          \* activations of generateContent, by slot
  orphans,       \* requests still outstanding whose run has already settled
  lastCall,      \* history: the arguments of the latest call of generateContent
  lastOutcome,   \* how the latest call of generateContent ended, for its caller
  uncaught,      \* an error left the click handler
  trace,         \* history: state setters, fetches and alerts of the latest call
  seen,          \* history: values of progress committed during the latest call
  viewMode,      \* App: useState('input')
  topic,         \* App: useState('')
  apiKey,        \* App: useState('')
  mode,          \* App: useState('ebook')
  pContent,      \* outline parser on its own: choices[0].message.content
  pResult,       \* outline parser on its own: the returned subtopics
  pDone,         \* outline parser on its own: generateSubtopics has returned
  cbWrite,       \* clipboard export: the state of navigator.clipboard.writeText
  cbText,        \* clipboard export: the text handed to writeText
  clipboard,     \* the system clipboard
  cbResult,      \* clipboard export: how the latest copyToClipboard ended
  copied,        \* ContentPreview: useState(false)
  pdfVariant,    \* which version of downloadPDF is built
  pdfMode,       \* PDF export: the mode argument
  pdfCover,      \* PDF export: the topic as measured for the cover
  pdfInput,      \* PDF export: the chapters as measured, in wrapped lines
  pdfDoc,        \* PDF export: the pages of the jsPDF document and yPosition
  pdfSaved,      \* PDF export: pdf.save has been called
  cleanKind,     \* sanitizing on its own: which replace chain is applied
  cleanInput,    \* sanitizing on its own: chapter.title or chapter.content
  cleanOutputs   \* sanitizing on its own: the results of successive passes

hookVars == <<isGenerating, progress, chapters, runs, orphans, lastCall,
              lastOutcome, uncaught, trace, seen>>
appVars == <<viewMode, topic, apiKey, mode>>
parseVars == <<pContent, pResult, pDone>>
copyVars == <<cbWrite, cbText, clipboard, cbResult, copied>>
pdfVars == <<pdfVariant, pdfMode, pdfCover, pdfInput, pdfDoc, pdfSaved>>
cleanVars == <<cleanKind, cleanInput, cleanOutputs>>
exportVars == <<copyVars, pdfVars, cleanVars>>
vars == <<variant, service, hookVars, appVars, parseVars, exportVars>>

\* ------------------------------------------------------------------ bounds
\* characters of an exhaustively enumerated outline response
MaxChars == 5
\* lines of a generated (numbered-list) outline response
MaxLines == 12
\* lines of the outline responses served to a run of the pipeline
MaxOutline == 3
\* activations of generateContent that can be live at once
MaxRuns == 2
\* abandoned requests above which no new run is started
MaxOrphans == 2

\* activations that unconstrained callers keep in flight at once
FreeRuns == 2

\* blocks of the chapter lists handed to the clipboard export
MaxBlocks == 2

\* chapters of the lists handed to the PDF export
MaxPdfBlocks == 2

\* characters of an exhaustively enumerated title or content to sanitize
MaxClean == 3

\* wrapped lines of a long paragraph: more than one page holds
LongBody == 40

\* wrapped lines of a long cover title
LongTitle == 30

\* --------------------------------------------------------- program constants
\* openAIService.ts: subtopics.length < 10 / .slice(0, 10)
SubtopicLimit == 10

\* ------------------------------------------------------------------ strings
DigitChars == <<"0", "1", "2", "3", "4", "5", "6", "7", "8", "9">>

IsDigit(c) == \E k \in 1..10 : DigitChars[k] = c

\* the characters String.prototype.trim and the regex class \s both remove
IsSpace(c) == c \in {" ", "\t", "\n", "\r"}

Min(a, b) == IF a < b THEN a ELSE b

\* decimal rendering of a template-literal number (${i + 1})
RECURSIVE Dec(_)
Dec(k) == IF k < 10 THEN <<DigitChars[k + 1]>>
          ELSE Dec(k \div 10) \o <<DigitChars[(k % 10) + 1]>>

\* String.prototype.split('\n')
RECURSIVE SplitAcc(_, _, _)
SplitAcc(s, cur, acc) ==
  IF s = <<>> THEN Append(acc, cur)
  ELSE IF Head(s) = "\n" THEN SplitAcc(Tail(s), <<>>, Append(acc, cur))
  ELSE SplitAcc(Tail(s), Append(cur, Head(s)), acc)

Split(s) == SplitAcc(s, <<>>, <<>>)

RECURSIVE TrimStart(_)
TrimStart(s) == IF s # <<>> /\ IsSpace(Head(s)) THEN TrimStart(Tail(s)) ELSE s

RECURSIVE TrimEnd(_)
TrimEnd(s) == IF s # <<>> /\ IsSpace(s[Len(s)])
              THEN TrimEnd(SubSeq(s, 1, Len(s) - 1)) ELSE s

\* String.prototype.trim
Trim(s) == TrimEnd(TrimStart(s))

\* the greedy \d+ at the start of a line: the digits consumed
RECURSIVE SkipDigits(_)
SkipDigits(s) == IF s # <<>> /\ IsDigit(Head(s)) THEN SkipDigits(Tail(s)) ELSE s

\* line.replace(/^\d+\.?\s*/, '')    (openAIService.ts, loop version)
ReplaceNumberingOptDot(line) ==
  LET rest == SkipDigits(line) IN
  IF Len(rest) = Len(line) THEN line
  ELSE IF rest # <<>> /\ Head(rest) = "." THEN TrimStart(Tail(rest))
  ELSE TrimStart(rest)

\* line.replace(/^\d+\.\s*/, '')     (chained version, and App.tsx)
ReplaceNumberingDot(line) ==
  LET rest == SkipDigits(line) IN
  IF Len(rest) = Len(line) THEN line
  ELSE IF rest # <<>> /\ Head(rest) = "." THEN TrimStart(Tail(rest))
  ELSE line

\* content.split('\n').filter(line => line.trim())
NonBlankLines(content) == SelectSeq(Split(content), LAMBDA l : Trim(l) # <<>>)

RECURSIVE SubtopicsLoopKeepsEmpty(_, _)
\* variation: the loop without its `cleaned &&` test
SubtopicsLoopKeepsEmpty(lines, subtopics) ==
  IF lines = <<>> THEN subtopics
  ELSE LET cleaned == Trim(ReplaceNumberingOptDot(Head(lines))) IN
       IF Len(subtopics) < SubtopicLimit
       THEN SubtopicsLoopKeepsEmpty(Tail(lines), Append(subtopics, cleaned))
       ELSE SubtopicsLoopKeepsEmpty(Tail(lines), subtopics)

\* for (const line of lines) { cleaned = ...; if (cleaned && subtopics.length < 10) push }
RECURSIVE SubtopicsLoopOffByOne(_, _)
\* variation: the limit tested with <= instead of <
SubtopicsLoopOffByOne(lines, subtopics) ==
  IF lines = <<>> THEN subtopics
  ELSE LET cleaned == Trim(ReplaceNumberingOptDot(Head(lines))) IN
       IF cleaned # <<>> /\ Len(subtopics) <= SubtopicLimit
       THEN SubtopicsLoopOffByOne(Tail(lines), Append(subtopics, cleaned))
       ELSE SubtopicsLoopOffByOne(Tail(lines), subtopics)

RECURSIVE SubtopicsLoop(_, _)
SubtopicsLoop(lines, subtopics) ==
  IF lines = <<>> THEN subtopics
  ELSE LET cleaned == Trim(ReplaceNumberingOptDot(Head(lines))) IN
       IF cleaned # <<>> /\ Len(subtopics) < SubtopicLimit
       THEN SubtopicsLoop(Tail(lines), Append(subtopics, cleaned))
       ELSE SubtopicsLoop(Tail(lines), subtopics)

\* variation: the chain without its .slice(0, 10)
SubtopicsChainNoSlice(lines) ==
  [k \in 1..Len(lines) |-> Trim(ReplaceNumberingDot(lines[k]))]

\* .map(line => line.replace(...).trim()).slice(0, 10)
SubtopicsChain(lines) ==
  LET mapped == [k \in 1..Len(lines) |-> Trim(ReplaceNumberingDot(lines[k]))] IN
  SubSeq(mapped, 1, Min(SubtopicLimit, Len(mapped)))

\* the two versions of generateSubtopics' parsing of choices[0].message.content
Services == {"loop", "chain"}

generateSubtopics(svc, content) ==
  IF svc = "loop" THEN SubtopicsLoop(NonBlankLines(content), <<>>)
  ELSE SubtopicsChain(NonBlankLines(content))

\* ---------------------------------------------------- outline responses
Letters == <<"a", "b", "c", "d">>

\* a distinct two-letter subtopic name for every line number
Name(k) == <<Letters[((k - 1) \div 4) + 1], Letters[((k - 1) % 4) + 1]>>

Styles == {"dot", "bare", "none", "indent"}

Prefix(style, k) ==
  CASE style = "dot" -> Dec(k) \o <<".", " ">>
    [] style = "bare" -> Dec(k) \o <<" ">>
    [] style = "indent" -> <<" ">> \o Dec(k) \o <<".", " ">>
    [] OTHER -> <<>>

\* line k of a list response; line `hole` carries a number and nothing else
ListLine(style, hole, k) ==
  IF k = hole THEN Dec(k) \o <<".">> ELSE Prefix(style, k) \o Name(k)

RECURSIVE ListDoc(_, _, _, _)
\* an n-line list, with a whitespace-only line after line `gap` (0: none)
ListDoc(n, style, hole, gap) ==
  IF n = 0 THEN <<>>
  ELSE LET before == ListDoc(n - 1, style, hole, gap)
           line == ListLine(style, hole, n)
           sep == IF n = 1 THEN <<>> ELSE <<"\n">>
           blank == IF gap = n - 1 /\ n > 1 THEN <<" ", "\n">> ELSE <<>>
       IN before \o sep \o blank \o line

Alphabet == {"1", ".", " ", "a", "\n"}

ShortContents == UNION {[1..k -> Alphabet] : k \in 0..MaxChars}

ListContents ==
  {ListDoc(n, st, h, g) : <<n, st, h, g>> \in
     {q \in (0..MaxLines) \X Styles \X (0..MaxLines) \X (0..MaxLines) :
        q[3] <= q[1] /\ q[4] < q[1] + 1}}

ParseInputs == ShortContents \cup ListContents

\* ------------------------------------------------------ pipeline: values
\* App.tsx (monolithic, Promise.all), hooks/useContentGeneration.ts
\* (Promise.all) and its for-loop version
Variants == {"monolith", "concurrent", "sequential"}
HookVariants == {"concurrent", "sequential"}

Modes == {"ebook", "chapter"}

Str_Chapter == <<"C", "h", "a", "p", "t", "e", "r", " ">>

\* what the user can have typed into the topic and API-key fields
Topics == {<<>>, <<" ">>, <<"t">>}
ApiKeys == {<<>>, <<"k">>}

\* choices[0].message.content of an outline response
OutlineDocs == {ListDoc(n, "dot", 0, 0) : n \in 0..MaxOutline}

\* choices[0].message.content of an expansion response
Bodies == {<<"x">>, <<"y">>}

Slots == 1..MaxRuns

P(c, t) == [current |-> c, total |-> t]

\* variation: the second step reported with the value of the third
StepBodiesAsDone == P(3, 3)

\* the arguments of the setProgress calls of generateContent, in source order
StepStart == P(0, 3)

\* variation: the outline step announced before any total is known
StepOutlineOfZero == P(1, 0)

StepOutline == P(1, 3)

StepBodies == P(2, 3)

StepDone == P(3, 3)

SetProgress(p) == [ev |-> "setProgress", a |-> p.current, b |-> p.total]

Ev(e, x, y) == [ev |-> e, a |-> x, b |-> y]

\* an array slot of Promise.all not yet filled
Unfilled == [title |-> <<>>, content |-> <<>>, index |-> -1]

FreeRun == [pc |-> "free", caller |-> "direct", mode |-> "ebook",
            subtopics |-> <<>>, resp |-> <<>>, results |-> <<>>,
            acc |-> <<>>, pending |-> {}, reordered |-> FALSE]

Live(r) == runs[r].pc \in {"outline", "expand"}

NoOutcome == [kind |-> "none", value |-> "none"]
Pending == [kind |-> "pending", value |-> "none"]
ReturnedNothing == [kind |-> "returned", value |-> "undefined"]
ReturnedChapters == [kind |-> "returned", value |-> "chapters"]
Threw == [kind |-> "threw", value |-> "error"]

\* ------------------------------------------------- PDF export: sanitizing
\* \w of a JavaScript regular expression without the u flag: [A-Za-z0-9_]
WordChars ==
  {"a", "b", "c", "d", "e", "f", "g", "h", "i", "j", "k", "l", "m", "n", "o",
   "p", "q", "r", "s", "t", "u", "v", "w", "x", "y", "z",
   "A", "B", "C", "D", "E", "F", "G", "H", "I", "J", "K", "L", "M", "N", "O",
   "P", "Q", "R", "S", "T", "U", "V", "W", "X", "Y", "Z",
   "0", "1", "2", "3", "4", "5", "6", "7", "8", "9", "_"}

\* [^\w\s:\-\(\)]
TitleChar(c) == c \in WordChars \/ IsSpace(c) \/ c \in {":", "-", "(", ")"}

\* chapter.title.replace(/[^\w\s:\-\(\)]/g, '')
cleanTitle(s) == SelectSeq(s, TitleChar)

\* the character U+0060, by name: a TLA+ string cannot hold it
Backtick == "backtick"

\* the class [#*_ and backtick]
MarkdownChar(c) == c \in {"#", "*", "_", Backtick}

NotMarkdown(c) == ~MarkdownChar(c)

\* the first replace of the content: the markdown symbols removed
stripMarkdown(s) == SelectSeq(s, NotMarkdown)

\* [^\w\s\.\,\!\?\:\;\(\)\-\n]
ContentChar(c) ==
  c \in WordChars \/ IsSpace(c) \/ c \in {".", ",", "!", "?", ":", ";", "(", ")", "-", "\n"}

\* .replace(/[^\w\s\.\,\!\?\:\;\(\)\-\n]/g, '')
stripSpecial(s) == SelectSeq(s, ContentChar)

RECURSIVE normalizeBreaksEach(_)
\* variation: .replace(/\n/g, '\n\n'), every line break doubled
normalizeBreaksEach(s) ==
  IF s = <<>> THEN <<>>
  ELSE IF Head(s) = "\n" THEN <<"\n", "\n">> \o normalizeBreaksEach(Tail(s))
  ELSE <<Head(s)>> \o normalizeBreaksEach(Tail(s))

RECURSIVE normalizeBreaks(_)
\* .replace(/\n+/g, '\n\n'): every maximal run of line breaks becomes two
normalizeBreaks(s) ==
  IF s = <<>> THEN <<>>
  ELSE IF Head(s) = "\n"
       THEN IF Len(s) > 1 /\ s[2] = "\n" THEN normalizeBreaks(Tail(s))
            ELSE <<"\n", "\n">> \o normalizeBreaks(Tail(s))
       ELSE <<Head(s)>> \o normalizeBreaks(Tail(s))

\* the replace chains of downloadPDF: the title's (both versions), the
\* content's of pdfGenerator.ts and the content's of the simple version
CleanKinds == {"title", "content", "contentSimple"}

clean(kind, s) ==
  IF kind = "title" THEN cleanTitle(s)
  ELSE IF kind = "content" THEN normalizeBreaks(stripSpecial(stripMarkdown(s)))
  ELSE stripSpecial(stripMarkdown(s))

\* ----------------------------------------------------- PDF export: layout
\* pdf.internal.pageSize.height of new jsPDF(): A4 portrait, in millimetres
pageHeight == 297

\* vertical positions are recorded in tenths of a millimetre, the cover
\* title being spaced by titleFontSize * 0.6
Mm(y) == 10 * y

\* new jsPDF(), let yPosition = 30: one empty page, which is the current one
NewDoc == [pages |-> << <<>> >>, y |-> 30]

\* pdf.addPage(): the new page becomes the current one
addPage(d) == [d EXCEPT !.pages = Append(@, <<>>)]

\* pdf.text(...) on page p, at vertical position y10
text(d, p, kind, block, y10) ==
  [d EXCEPT !.pages[p] = Append(@, [kind |-> kind, block |-> block, y |-> y10])]

\* variation: the page break tested against the footer line
BelowFooterLine(d) == d.y > pageHeight - 10

\* yPosition > pageHeight - 30
Below(d) == d.y > pageHeight - 30

\* { pdf.addPage(); yPosition = 30 }
PageBreak(d) == [addPage(d) EXCEPT !.y = 30]

RECURSIVE DrawLines(_, _, _, _, _)
\* lines.forEach(line => { if (yPosition > pageHeight - 30) <page break>;
\* pdf.text(line, 20, yPosition); yPosition += step })
DrawLines(d, n, kind, block, step) ==
  IF n = 0 THEN d
  ELSE IF Below(d) THEN DrawLines(PageBreak(d), n, kind, block, step)
  ELSE DrawLines([text(d, Len(d.pages), kind, block, Mm(d.y)) EXCEPT !.y = @ + step],
                 n - 1, kind, block, step)

\* pdfGenerator.ts: one paragraph of the content, a header or plain text
ParagraphFull(d, p, block) ==
  LET d1 == IF p.header THEN [d EXCEPT !.y = @ + 8] ELSE d
      d2 == DrawLines(d1, p.lines, IF p.header THEN "header" ELSE "body", block,
                      IF p.header THEN 8 ELSE 6)
  IN [d2 EXCEPT !.y = @ + (IF p.header THEN 4 ELSE 8)]

\* part_005: one non-blank line of the content
ParagraphSimple(d, p, block) ==
  LET d1 == IF Below(d) THEN PageBreak(d) ELSE d
      d2 == DrawLines(d1, p.lines, "body", block, 6)
  IN [d2 EXCEPT !.y = @ + 4]

RECURSIVE Paragraphs(_, _, _, _)
\* contentText.forEach(...)
Paragraphs(pv, d, ps, block) ==
  IF ps = <<>> THEN d
  ELSE Paragraphs(pv, IF pv = "full" THEN ParagraphFull(d, Head(ps), block)
                      ELSE ParagraphSimple(d, Head(ps), block),
                  Tail(ps), block)

\* variation: the break before a chapter taken only far down the page
ChapterFullLateBreak(d, m, ch, i) ==
  LET d1 == IF (i > 0 \/ m = "ebook") /\ d.y > 70 THEN PageBreak(d) ELSE d
      d2 == DrawLines(d1, ch.titleLines, "title", i + 1, 12)
      d3 == [d2 EXCEPT !.y = @ + 8]
      d4 == Paragraphs("full", d3, ch.body, i + 1)
  IN [d4 EXCEPT !.y = @ + 15]

\* pdfGenerator.ts: the body of chapters.forEach for the chapter of index i
ChapterFull(d, m, ch, i) ==
  LET d1 == IF (i > 0 \/ m = "ebook") /\ d.y > 50 THEN PageBreak(d) ELSE d
      d2 == DrawLines(d1, ch.titleLines, "title", i + 1, 12)
      d3 == [d2 EXCEPT !.y = @ + 8]
      d4 == Paragraphs("full", d3, ch.body, i + 1)
  IN [d4 EXCEPT !.y = @ + 15]

\* part_005: the body of chapters.forEach for the chapter of index i
ChapterSimple(d, m, ch, i) ==
  LET d1 == IF i > 0 \/ m = "ebook" THEN PageBreak(d) ELSE d
      d2 == text(d1, Len(d1.pages), "title", i + 1, Mm(d1.y))
      d3 == [d2 EXCEPT !.y = @ + 20]
  IN Paragraphs("simple", d3, ch.body, i + 1)

RECURSIVE Chapters(_, _, _, _, _)
\* chapters.forEach((chapter, index) => ...)
Chapters(pv, d, m, chs, i) ==
  IF i >= Len(chs) THEN d
  ELSE Chapters(pv, IF pv = "full" THEN ChapterFull(d, m, chs[i + 1], i)
                    ELSE ChapterSimple(d, m, chs[i + 1], i),
                m, chs, i + 1)

\* pdfGenerator.ts: the cover page, the title in cover.lines lines at the
\* font size the shrinking loop ended with
CoverFull(d, cover) ==
  LET RECURSIVE TitleLines(_, _)
      TitleLines(c, index) ==
        IF index >= cover.lines THEN c
        ELSE TitleLines(text(c, 1, "cover", 0, Mm(60) + index * (cover.fontSize * 6)),
                        index + 1)
      d1 == TitleLines(d, 0)
      y1 == Mm(60) + cover.lines * (cover.fontSize * 6) + Mm(20)
      d2 == text(d1, 1, "cover", 0, y1)
      y2 == y1 + Mm(1 * 16 + 15)
      d3 == text(d2, 1, "cover", 0, y2)
  IN PageBreak(d3)

\* part_005: the cover page
CoverSimple(d) ==
  LET d1 == text(d, 1, "cover", 0, Mm(60))
      d2 == text(d1, 1, "cover", 0, Mm(80))
      d3 == text(d2, 1, "cover", 0, Mm(100))
  IN PageBreak(d3)

RECURSIVE Footer(_, _)
\* for (let i = 1; i <= totalPages; i++): the page number and, after the
\* cover, the topic
Footer(d, i) ==
  IF i > Len(d.pages) THEN d
  ELSE LET d1 == text(d, i, "footer", 0, Mm(pageHeight - 10))
           d2 == IF i > 1 THEN text(d1, i, "footer", 0, Mm(pageHeight - 10)) ELSE d1
       IN Footer(d2, i + 1)

PdfVariants == {"full", "simple"}

\* downloadPDF(chapters, topic, mode) up to pdf.save
downloadPDF(pv, chs, cover, m) ==
  LET d0 == NewDoc
      d1 == IF m # "ebook" THEN d0
            ELSE IF pv = "full" THEN CoverFull(d0, cover) ELSE CoverSimple(d0)
      d2 == Chapters(pv, d1, m, chs, 0)
  IN IF pv = "full" /\ m = "ebook" THEN Footer(d2, 1) ELSE d2

\* ------------------------------------------------- pipeline: pure pieces
\* variation: the chapter number taken as the 0-based index
TitleZeroBased(m, i, subtopic) ==
  IF m = "ebook" THEN Str_Chapter \o Dec(i) \o <<":", " ">> \o subtopic
  ELSE subtopic

\* mode === 'ebook' ? `Chapter ${i + 1}: ${subtopic}` : subtopic
Title(m, i, subtopic) ==
  IF m = "ebook" THEN Str_Chapter \o Dec(i + 1) \o <<":", " ">> \o subtopic
  ELSE subtopic

\* .then(content => ({ title, content, index: i }))
Tagged(m, i, subtopic, content) ==
  [title |-> Title(m, i, subtopic), content |-> content, index |-> i]

RECURSIVE InsertByIndex(_, _)
InsertByIndex(sorted, x) ==
  IF sorted = <<>> THEN <<x>>
  ELSE IF sorted[Len(sorted)].index - x.index > 0
       THEN Append(InsertByIndex(SubSeq(sorted, 1, Len(sorted) - 1), x),
                   sorted[Len(sorted)])
       ELSE Append(sorted, x)

\* variation: the comparator reversed, (a, b) => b.index - a.index
SortByIndexDescending(arr) ==
  [k \in 1..Len(arr) |->
     CHOOSE x \in {arr[j] : j \in 1..Len(arr)} :
       Cardinality({j \in 1..Len(arr) : arr[j].index > x.index}) = k - 1]

RECURSIVE SortByIndex(_)
\* chapterResults.sort((a, b) => a.index - b.index)
SortByIndex(arr) ==
  IF arr = <<>> THEN <<>>
  ELSE InsertByIndex(SortByIndex(SubSeq(arr, 1, Len(arr) - 1)), arr[Len(arr)])

\* variation: the final map keeps the titles only
UntagTitlesOnly(arr) == [k \in 1..Len(arr) |-> [title |-> arr[k].title, content |-> <<>>]]

\* .map(({ title, content }) => ({ title, content }))
Untag(arr) == [k \in 1..Len(arr) |-> [title |-> arr[k].title, content |-> arr[k].content]]

\* variation: the validation without trim()
InvalidUntrimmed(t, k) == t = <<>> \/ k = <<>>

\* !topic.trim() || !apiKey.trim()
Invalid(t, k) == Trim(t) = <<>> \/ Trim(k) = <<>>

\* variation: the catch block without its throw
CaughtSwallowed(v) == ReturnedNothing

\* catch { console.error; alert; throw error }   (App.tsx: no throw)
Caught(v) == IF v = "monolith" THEN ReturnedNothing ELSE Threw

\* return generatedChapters   (App.tsx: setViewMode('preview'), no return)
Returned(v) == IF v = "monolith" THEN ReturnedNothing ELSE ReturnedChapters

\* variation: handleGenerate without its try/catch
handleGenerateNoCatch(outcome, view) ==
  IF outcome.kind = "threw" THEN [view |-> view, uncaught |-> TRUE]
  ELSE IF outcome.value = "chapters" THEN [view |-> "preview", uncaught |-> FALSE]
  ELSE [view |-> view, uncaught |-> FALSE]

\* variation: handleGenerate switching the view without looking at the result
handleGenerateAlwaysPreview(outcome, view) ==
  IF outcome.kind = "threw" THEN [view |-> view, uncaught |-> FALSE]
  ELSE [view |-> "preview", uncaught |-> FALSE]

\* App.handleGenerate around its await: try { if (result) setViewMode('preview') } catch {}
handleGenerate(outcome, view) ==
  IF outcome.kind = "threw" THEN [view |-> view, uncaught |-> FALSE]
  ELSE IF outcome.value = "chapters" THEN [view |-> "preview", uncaught |-> FALSE]
  ELSE [view |-> view, uncaught |-> FALSE]

\* what the caller of a settled run does with its outcome
Continue(caller, ok, outcome, view) ==
  CASE caller = "handleGenerate" -> handleGenerate(outcome, view)
    [] caller = "onClick" -> [view |-> IF ok THEN "preview" ELSE view,
                              uncaught |-> outcome.kind = "threw"]
    [] OTHER -> [view |-> view, uncaught |-> FALSE]

\* variation: the button not disabled while generating
ButtonIgnoresFlag(gen, t, k) == Trim(t) = <<>> \/ Trim(k) = <<>>

\* disabled={isGenerating || !topic.trim() || !apiKey.trim()}
ButtonDisabled(gen, t, k) == gen \/ Trim(t) = <<>> \/ Trim(k) = <<>>

\* the lowest slot holding no live activation
FreeSlot == CHOOSE r \in Slots : ~Live(r) /\ \A q \in Slots : q < r => Live(q)

Log(sq, p) == IF sq # <<>> /\ sq[Len(sq)] = p THEN sq ELSE Append(sq, p)

\* ------------------------------------------------------ pipeline: steps
InitHook ==
  /\ isGenerating = FALSE
  /\ progress = P(0, 0)
  /\ chapters = <<>>
  /\ runs = [r \in Slots |-> FreeRun]
  /\ orphans = 0
  /\ lastCall = [topic |-> <<>>, apiKey |-> <<>>, tick |-> 0]
  /\ lastOutcome = NoOutcome
  /\ uncaught = FALSE
  /\ trace = <<>>
  /\ seen = <<P(0, 0)>>

InitApp ==
  /\ viewMode = "input"
  /\ topic = <<>>
  /\ apiKey = <<>>
  /\ mode = "ebook"

InitParse ==
  /\ pContent = <<>>
  /\ pResult = <<>>
  /\ pDone = FALSE

InitCopy ==
  /\ cbWrite = "none"
  /\ cbText = <<>>
  /\ clipboard = <<"o", "l", "d">>
  /\ cbResult = "none"
  /\ copied = FALSE

InitPdf ==
  /\ pdfVariant = "full"
  /\ pdfMode = "ebook"
  /\ pdfCover = [fontSize |-> 24, lines |-> 1]
  /\ pdfInput = <<>>
  /\ pdfDoc = NewDoc
  /\ pdfSaved = FALSE

InitClean ==
  /\ cleanKind = "title"
  /\ cleanInput = <<>>
  /\ cleanOutputs = <<>>

InitExport == InitCopy /\ InitPdf /\ InitClean

\* generateContent, lines 16-19: the validation return
Rejected(t, k) ==
  /\ Invalid(t, k)
  /\ trace' = <<Ev("alert", 0, 0)>>
  /\ seen' = <<progress>>
  /\ lastCall' = [topic |-> t, apiKey |-> k, tick |-> 1 - lastCall.tick]
  /\ lastOutcome' = ReturnedNothing
  /\ UNCHANGED <<isGenerating, progress, chapters, runs, orphans, uncaught>>

\* variation: a run started without setChapters([])
StartedKeepsChapters(caller, t, k, m) ==
  /\ ~Invalid(t, k)
  /\ \E r \in Slots : ~Live(r)
  /\ orphans < MaxOrphans
  /\ isGenerating' = TRUE
  /\ progress' = StepOutline
  /\ chapters' = chapters
  /\ runs' = [runs EXCEPT ![FreeSlot] =
                [FreeRun EXCEPT !.pc = "outline", !.caller = caller, !.mode = m]]
  /\ trace' = <<Ev("setIsGenerating", 1, 0), SetProgress(StepStart),
                SetProgress(StepOutline), Ev("fetch", 0, 0)>>
  /\ seen' = Log(<<progress>>, StepOutline)
  /\ lastCall' = [topic |-> t, apiKey |-> k, tick |-> 1 - lastCall.tick]
  /\ lastOutcome' = Pending
  /\ UNCHANGED <<orphans, uncaught>>

\* generateContent, lines 21-28: up to the await of the outline request
Started(caller, t, k, m) ==
  /\ ~Invalid(t, k)
  /\ \E r \in Slots : ~Live(r)
  /\ orphans < MaxOrphans
  /\ isGenerating' = TRUE
  /\ progress' = StepOutline
  /\ chapters' = <<>>
  /\ runs' = [runs EXCEPT ![FreeSlot] =
                [FreeRun EXCEPT !.pc = "outline", !.caller = caller, !.mode = m]]
  /\ trace' = <<Ev("setIsGenerating", 1, 0), SetProgress(StepStart),
                Ev("setChapters", 0, 0), SetProgress(StepOutline),
                Ev("fetch", 0, 0)>>
  /\ seen' = Log(<<progress>>, StepOutline)
  /\ lastCall' = [topic |-> t, apiKey |-> k, tick |-> 1 - lastCall.tick]
  /\ lastOutcome' = Pending
  /\ UNCHANGED <<orphans, uncaught>>

\* variation: the last progress step announced before the chapters are set
SucceedAnnouncesFirst(r, run, generated, tr) ==
  LET after == Continue(run.caller, TRUE, Returned(variant), viewMode) IN
  /\ runs' = [runs EXCEPT ![r] = [run EXCEPT !.pc = "done", !.pending = {}]]
  /\ chapters' = generated
  /\ progress' = StepDone
  /\ isGenerating' = FALSE
  /\ trace' = tr \o <<SetProgress(StepDone), Ev("setChapters", Len(generated), 0),
                      Ev("setIsGenerating", 0, 0)>>
  /\ seen' = Log(seen, StepDone)
  /\ lastOutcome' = Returned(variant)
  /\ viewMode' = after.view
  /\ uncaught' = (uncaught \/ after.uncaught)
  /\ UNCHANGED <<orphans, lastCall>>

\* the rest of the try block once every expansion has resolved, then finally
Succeed(r, run, generated, tr) ==
  LET after == Continue(run.caller, TRUE, Returned(variant), viewMode) IN
  /\ runs' = [runs EXCEPT ![r] = [run EXCEPT !.pc = "done", !.pending = {}]]
  /\ chapters' = generated
  /\ progress' = StepDone
  /\ isGenerating' = FALSE
  /\ trace' = tr \o <<Ev("setChapters", Len(generated), 0),
                      SetProgress(StepDone), Ev("setIsGenerating", 0, 0)>>
  /\ seen' = Log(seen, StepDone)
  /\ lastOutcome' = Returned(variant)
  /\ viewMode' = after.view
  /\ uncaught' = (uncaught \/ after.uncaught)
  /\ UNCHANGED <<orphans, lastCall>>

\* variation: the catch block without the finally that clears the flag
FailLeavesFlag(r, abandoned) ==
  LET after == Continue(runs[r].caller, FALSE, Caught(variant), viewMode) IN
  /\ runs' = [runs EXCEPT ![r].pc = "failed", ![r].pending = {}]
  /\ isGenerating' = isGenerating
  /\ trace' = Append(trace, Ev("alert", 1, 0))
  /\ lastOutcome' = Caught(variant)
  /\ viewMode' = after.view
  /\ uncaught' = (uncaught \/ after.uncaught)
  /\ orphans' = orphans + abandoned
  /\ UNCHANGED <<chapters, progress, seen, lastCall>>

\* variation: the finally block also reports the last step
FailMarksDone(r, abandoned) ==
  LET after == Continue(runs[r].caller, FALSE, Caught(variant), viewMode) IN
  /\ runs' = [runs EXCEPT ![r].pc = "failed", ![r].pending = {}]
  /\ isGenerating' = FALSE
  /\ progress' = StepDone
  /\ trace' = trace \o <<Ev("alert", 1, 0), Ev("setIsGenerating", 0, 0)>>
  /\ lastOutcome' = Caught(variant)
  /\ viewMode' = after.view
  /\ uncaught' = (uncaught \/ after.uncaught)
  /\ orphans' = orphans + abandoned
  /\ UNCHANGED <<chapters, seen, lastCall>>

\* catch and finally, the requests left outstanding being abandoned
Fail(r, abandoned) ==
  LET after == Continue(runs[r].caller, FALSE, Caught(variant), viewMode) IN
  /\ runs' = [runs EXCEPT ![r].pc = "failed", ![r].pending = {}]
  /\ isGenerating' = FALSE
  /\ trace' = trace \o <<Ev("alert", 1, 0), Ev("setIsGenerating", 0, 0)>>
  /\ lastOutcome' = Caught(variant)
  /\ viewMode' = after.view
  /\ uncaught' = (uncaught \/ after.uncaught)
  /\ orphans' = orphans + abandoned
  /\ UNCHANGED <<chapters, progress, seen, lastCall>>

\* the outline request of run r fails (rejected fetch, or a payload without
\* choices[0].message.content as a string): generateSubtopics throws
OutlineRejected(r) ==
  /\ runs[r].pc = "outline"
  /\ Fail(r, 0)
  /\ UNCHANGED <<variant, service, topic, apiKey, mode, parseVars, exportVars>>

\* the outline response of run r arrives: generateSubtopics returns, and
\* generateContent runs on to its next await
OutlineResolved(r, doc) ==
  LET subs == generateSubtopics(service, doc)
      n == Len(subs)
      first == IF variant = "sequential" THEN {1} ELSE 1..n
      run == [runs[r] EXCEPT !.pc = "expand", !.subtopics = subs,
                             !.resp = [k \in 1..n |-> <<>>],
                             !.results = [k \in 1..n |-> Unfilled],
                             !.pending = first]
      tr == Append(trace, SetProgress(StepBodies))
  IN
  /\ runs[r].pc = "outline"
  /\ IF n = 0
     THEN Succeed(r, run, IF variant = "sequential" THEN run.acc
                          ELSE Untag(SortByIndex(run.results)), tr)
     ELSE /\ runs' = [runs EXCEPT ![r] = run]
          /\ progress' = StepBodies
          /\ trace' = tr \o [k \in 1..Cardinality(first) |-> Ev("fetch", 1, k - 1)]
          /\ seen' = Log(seen, StepBodies)
          /\ UNCHANGED <<isGenerating, chapters, orphans, lastCall, lastOutcome,
                         uncaught, viewMode>>
  /\ UNCHANGED <<variant, service, topic, apiKey, mode, parseVars, exportVars>>

\* variation: a rejected expansion request issued once more
ExpansionRejectedRetried(r, i) ==
  /\ runs[r].pc = "expand"
  /\ (i + 1) \in runs[r].pending
  /\ trace' = Append(trace, Ev("fetch", 1, i))
  /\ UNCHANGED <<isGenerating, progress, chapters, runs, orphans, lastCall,
                 lastOutcome, uncaught, seen, viewMode>>
  /\ UNCHANGED <<variant, service, topic, apiKey, mode, parseVars, exportVars>>

\* the expansion request for outline entry i (0-based) of run r fails
ExpansionRejected(r, i) ==
  /\ runs[r].pc = "expand"
  /\ (i + 1) \in runs[r].pending
  /\ Fail(r, Cardinality(runs[r].pending) - 1)
  /\ UNCHANGED <<variant, service, topic, apiKey, mode, parseVars, exportVars>>

\* the expansion response for outline entry i (0-based) of run r arrives
ExpansionResolved(r, i, body) ==
  LET k == i + 1
      old == runs[r]
      n == Len(old.subtopics)
      got == [old EXCEPT !.resp[k] = body,
                         !.reordered = @ \/ (\E j \in old.pending : j < k)]
  IN
  /\ old.pc = "expand"
  /\ k \in old.pending
  /\ IF variant = "sequential"
     THEN LET run == [got EXCEPT
                        !.acc = Append(@, [title |-> Title(old.mode, i, old.subtopics[k]),
                                           content |-> body])]
          IN IF k < n
             THEN /\ runs' = [runs EXCEPT ![r] = [run EXCEPT !.pending = {k + 1}]]
                  /\ trace' = Append(trace, Ev("fetch", 1, k))
                  /\ UNCHANGED <<isGenerating, progress, chapters, orphans, lastCall,
                                 lastOutcome, uncaught, seen, viewMode>>
             ELSE Succeed(r, run, run.acc, trace)
     ELSE LET run == [got EXCEPT
                        !.results[k] = Tagged(old.mode, i, old.subtopics[k], body),
                        !.pending = @ \ {k}]
          IN IF run.pending # {}
             THEN /\ runs' = [runs EXCEPT ![r] = run]
                  /\ UNCHANGED <<isGenerating, progress, chapters, orphans, lastCall,
                                 lastOutcome, uncaught, trace, seen, viewMode>>
             ELSE Succeed(r, run, Untag(SortByIndex(run.results)), trace)
  /\ UNCHANGED <<variant, service, topic, apiKey, mode, parseVars, exportVars>>

\* variation: an abandoned request that completes reports its step
OrphanSettledPublishes ==
  /\ orphans > 0
  /\ orphans' = orphans - 1
  /\ progress' = StepBodies
  /\ UNCHANGED <<variant, service, isGenerating, chapters, runs, lastCall,
                 lastOutcome, uncaught, trace, seen, appVars, parseVars, exportVars>>

\* variation: an abandoned request that completes reaches the catch block
OrphanSettledReported ==
  /\ orphans > 0
  /\ orphans' = orphans - 1
  /\ trace' = Append(trace, Ev("alert", 1, 0))
  /\ UNCHANGED <<variant, service, isGenerating, progress, chapters, runs,
                 lastCall, lastOutcome, uncaught, seen, appVars, parseVars, exportVars>>

\* a request abandoned by a rejected Promise.all completes, either way
OrphanSettled ==
  /\ orphans > 0
  /\ orphans' = orphans - 1
  /\ UNCHANGED <<variant, service, isGenerating, progress, chapters, runs,
                 lastCall, lastOutcome, uncaught, trace, seen, appVars, parseVars, exportVars>>

\* what the OpenAI endpoint may do to the requests in flight, the outline
\* responses drawn from docs and the chapter bodies from bodies
NetworkOn(docs, bodies) ==
  \/ \E r \in Slots : OutlineRejected(r)
  \/ \E r \in Slots, doc \in docs : OutlineResolved(r, doc)
  \/ \E r \in Slots, i \in 0..(SubtopicLimit - 1) : ExpansionRejected(r, i)
  \/ \E r \in Slots, i \in 0..(SubtopicLimit - 1), body \in bodies :
       ExpansionResolved(r, i, body)
  \/ OrphanSettled

Network == NetworkOn(OutlineDocs, Bodies)

\* variation: a reset that leaves the in-progress flag alone
resetGenerationKeepsFlag ==
  /\ chapters' = <<>>
  /\ progress' = P(0, 0)
  /\ isGenerating' = isGenerating

\* resetGeneration
resetGeneration ==
  /\ chapters' = <<>>
  /\ progress' = P(0, 0)
  /\ isGenerating' = FALSE

\* ---------------------------------------- the hook under a serializing caller
Idle == \A r \in Slots : ~Live(r)

\* generateContent called with arguments the validation turns away
CallRejected(t, k) ==
  /\ Idle
  /\ Rejected(t, k)
  /\ UNCHANGED <<variant, service, appVars, parseVars, exportVars>>

\* generateContent called with arguments that pass the validation
CallStarted(t, k, m) ==
  /\ Idle
  /\ Started("direct", t, k, m)
  /\ UNCHANGED <<variant, service, appVars, parseVars, exportVars>>

\* resetGeneration called between runs
CallReset ==
  /\ Idle
  /\ resetGeneration
  /\ UNCHANGED <<variant, service, runs, orphans, lastCall, lastOutcome, uncaught,
                 trace, seen, appVars, parseVars, exportVars>>

Init ==
  /\ variant \in HookVariants
  /\ service \in Services
  /\ InitHook /\ InitApp /\ InitExport /\ InitParse

Next ==
  \/ \E t \in Topics, k \in ApiKeys : CallRejected(t, k)
  \/ \E t \in Topics, k \in ApiKeys, m \in Modes : CallStarted(t, k, m)
  \/ CallReset
  \/ Network

Spec == Init /\ [][Next]_vars

\* ------------------------------- the hook on outlines around the limit
\* outline responses of no line, of one line fewer than the limit, and of
\* more lines than the limit
LimitDocs == {ListDoc(n, "dot", 0, 0) : n \in {0, SubtopicLimit - 1, SubtopicLimit + 2}}

NextOutline ==
  \/ \E m \in Modes : CallStarted(<<"t">>, <<"k">>, m)
  \/ NetworkOn(LimitDocs, {<<"x">>})

SpecOutline == Init /\ [][NextOutline]_vars

\* ------------------------------------- the hook under unconstrained callers
\* the hook's three results used by a component that serializes nothing:
\* generateContent and resetGeneration called at any time, also while
\* earlier activations are awaiting their responses
FreeRejected(t, k) ==
  /\ Rejected(t, k)
  /\ UNCHANGED <<variant, service, appVars, parseVars, exportVars>>

FreeStarted(t, k, m) ==
  /\ Cardinality({r \in Slots : Live(r)}) < FreeRuns
  /\ Started("direct", t, k, m)
  /\ UNCHANGED <<variant, service, appVars, parseVars, exportVars>>

FreeReset ==
  /\ resetGeneration
  /\ UNCHANGED <<variant, service, runs, orphans, lastCall, lastOutcome, uncaught,
                 trace, seen, appVars, parseVars, exportVars>>

\* the outline responses of the unconstrained runs: of no line and of one
FreeDocs == {ListDoc(n, "dot", 0, 0) : n \in {0, 1}}

NextFree ==
  \/ FreeRejected(<<" ">>, <<"k">>)
  \/ FreeStarted(<<"t">>, <<"k">>, "ebook")
  \/ FreeReset
  \/ \E r \in Slots : OutlineRejected(r)
  \/ \E r \in Slots, doc \in FreeDocs : OutlineResolved(r, doc)
  \/ \E r \in Slots : ExpansionRejected(r, 0)
  \/ \E r \in Slots : ExpansionResolved(r, 0, <<"x">>)

InitFree ==
  /\ variant \in HookVariants
  /\ service = "loop"
  /\ InitHook /\ InitApp /\ InitExport /\ InitParse

SpecFree == InitFree /\ [][NextFree]_vars

\* ------------------- callers that serialize their calls but reset at will
\* the outline responses of these runs: of no line, of one and of two
ResetDocs == {ListDoc(n, "dot", 0, 0) : n \in {0, 1, 2}}

NextReset ==
  \/ CallStarted(<<"t">>, <<"k">>, "ebook")
  \/ FreeReset
  \/ NetworkOn(ResetDocs, {<<"x">>})

SpecReset == InitFree /\ [][NextReset]_vars

\* ------------------------------------------------ the composed application
\* InputForm: the topic field, disabled={isGenerating}
SetTopic(t) ==
  /\ viewMode = "input" /\ ~isGenerating
  /\ topic' = t
  /\ UNCHANGED <<variant, service, hookVars, viewMode, apiKey, mode, parseVars, exportVars>>

\* InputForm: the API-key field, disabled={isGenerating}
SetApiKey(k) ==
  /\ viewMode = "input" /\ ~isGenerating
  /\ apiKey' = k
  /\ UNCHANGED <<variant, service, hookVars, viewMode, topic, mode, parseVars, exportVars>>

\* Header: the two mode buttons, never disabled
SetMode(m) ==
  /\ mode' = m
  /\ UNCHANGED <<variant, service, hookVars, viewMode, topic, apiKey, parseVars, exportVars>>

\* the generate button: handleGenerate (App.tsx: generateContent itself)
ClickGenerate ==
  /\ viewMode = "input"
  /\ ~ButtonDisabled(isGenerating, topic, apiKey)
  /\ Started(IF variant = "monolith" THEN "onClick" ELSE "handleGenerate",
             topic, apiKey, mode)
  /\ UNCHANGED <<variant, service, appVars, parseVars, exportVars>>

\* variation: the reset control offered in every view
ClickResetAnywhere ==
  /\ viewMode' = "input"
  /\ IF variant = "monolith"
     THEN chapters' = <<>> /\ progress' = P(0, 0) /\ UNCHANGED isGenerating
     ELSE resetGeneration
  /\ UNCHANGED <<variant, service, runs, orphans, lastCall, lastOutcome, uncaught,
                 trace, seen, topic, apiKey, mode, parseVars, exportVars>>

\* ContentPreview's "New ..." button: handleReset (App.tsx: resetApp, which
\* leaves isGenerating alone)
ClickReset ==
  /\ viewMode = "preview"
  /\ viewMode' = "input"
  /\ IF variant = "monolith"
     THEN chapters' = <<>> /\ progress' = P(0, 0) /\ UNCHANGED isGenerating
     ELSE resetGeneration
  /\ UNCHANGED <<variant, service, runs, orphans, lastCall, lastOutcome, uncaught,
                 trace, seen, topic, apiKey, mode, parseVars, exportVars>>

InitComposed ==
  /\ variant \in Variants
  /\ service \in (IF variant = "monolith" THEN {"chain"} ELSE Services)
  /\ InitHook /\ InitApp /\ InitExport /\ InitParse

NextApp ==
  \/ \E t \in Topics : SetTopic(t)
  \/ \E k \in ApiKeys : SetApiKey(k)
  \/ \E m \in Modes : SetMode(m)
  \/ ClickGenerate
  \/ ClickReset
  \/ Network

SpecApp == InitComposed /\ [][NextApp]_vars

\* ------------------------- the application with its handler run on any input
\* the click handler run on fields the validation turns away, as when it is
\* invoked in spite of the button's disabled attribute
InvokeRejected ==
  /\ viewMode = "input"
  /\ Rejected(topic, apiKey)
  /\ viewMode' = Continue(IF variant = "monolith" THEN "onClick" ELSE "handleGenerate",
                          FALSE, ReturnedNothing, viewMode).view
  /\ UNCHANGED <<variant, service, topic, apiKey, mode, parseVars, exportVars>>

NextHandler ==
  \/ \E t \in Topics : SetTopic(t)
  \/ \E k \in ApiKeys : SetApiKey(k)
  \/ \E m \in Modes : SetMode(m)
  \/ ClickGenerate
  \/ InvokeRejected
  \/ ClickReset
  \/ Network

SpecHandler == InitComposed /\ [][NextHandler]_vars

\* --------------------------------------------- the outline parser on its own
InitParser ==
  /\ variant = "concurrent"
  /\ service \in Services
  /\ InitHook /\ InitApp /\ InitExport
  /\ pContent \in ParseInputs
  /\ pResult = <<>>
  /\ pDone = FALSE

\* generateSubtopics, from choices[0].message.content to its return value
Parse ==
  /\ ~pDone
  /\ pDone' = TRUE
  /\ pResult' = generateSubtopics(service, pContent)
  /\ UNCHANGED <<variant, service, hookVars, appVars, pContent, exportVars>>

NextParse == Parse

SpecParse == InitParser /\ [][NextParse]_vars

\* ------------------------------------------------- sanitizing on its own
\* a word character, markdown markers (one of them a word character), a
\* character only the content keeps, one both keep, a line break, a symbol
CleanAlphabet == {"a", "_", "*", ".", ":", "\n", "@"}

CleanInputs == UNION {[1..k -> CleanAlphabet] : k \in 0..MaxClean}

InitCleaner ==
  /\ variant = "concurrent"
  /\ service = "loop"
  /\ InitHook /\ InitApp /\ InitParse /\ InitCopy /\ InitPdf
  /\ cleanKind \in CleanKinds
  /\ cleanInput \in CleanInputs
  /\ cleanOutputs = <<>>

\* one more pass of the replace chain over the result of the pass before
Clean ==
  /\ Len(cleanOutputs) < 2
  /\ cleanOutputs' =
       Append(cleanOutputs,
              clean(cleanKind, IF cleanOutputs = <<>> THEN cleanInput
                               ELSE cleanOutputs[Len(cleanOutputs)]))
  /\ UNCHANGED <<variant, service, hookVars, appVars, parseVars, copyVars,
                 pdfVars, cleanKind, cleanInput>>

NextClean == Clean

SpecClean == InitCleaner /\ [][NextClean]_vars

\* ------------------------------------------------------ the clipboard export
RECURSIVE JoinWithCommas(_)
\* variation: join() with its default separator
JoinWithCommas(parts) ==
  IF parts = <<>> THEN <<>>
  ELSE IF Len(parts) = 1 THEN parts[1]
  ELSE parts[1] \o <<",">> \o JoinWithCommas(Tail(parts))

RECURSIVE Join(_)
\* .join('')
Join(parts) ==
  IF parts = <<>> THEN <<>>
  ELSE parts[1] \o Join(Tail(parts))

\* `# ${chapter.title}\n\n${chapter.content}\n\n---\n\n`
Markdown(chapter) ==
  <<"#", " ">> \o chapter.title \o <<"\n", "\n">> \o chapter.content
    \o <<"\n", "\n", "-", "-", "-", "\n", "\n">>

\* chapters.map(chapter => ...).join('')
FullContent(chs) == Join([k \in 1..Len(chs) |-> Markdown(chs[k])])

\* the chapter lists a preview can show
CopyBlocks == {[title |-> t, content |-> c] :
                 t \in {<<"a">>, <<"b", "c">>}, c \in {<<>>, <<"x">>, <<"-", "\n">>}}

CopyLists == UNION {[1..n -> CopyBlocks] : n \in 0..MaxBlocks}

\* the preview of a finished run, the chapters being any of lists
PreviewOf(lists) ==
  /\ variant = "concurrent"
  /\ service = "loop"
  /\ isGenerating = FALSE
  /\ progress = StepDone
  /\ chapters \in lists
  /\ runs = [r \in Slots |-> FreeRun]
  /\ orphans = 0
  /\ lastCall = [topic |-> <<"t">>, apiKey |-> <<"k">>, tick |-> 0]
  /\ lastOutcome = ReturnedChapters
  /\ uncaught = FALSE
  /\ trace = <<>>
  /\ seen = <<StepDone>>
  /\ viewMode = "preview"
  /\ topic = <<"t">>
  /\ apiKey = <<"k">>
  /\ mode = "chapter"
  /\ InitParse

\* handleCopy, copyToClipboard up to its await of writeText
CopyStarted ==
  /\ viewMode = "preview"
  /\ cbWrite # "pending"
  /\ cbText' = FullContent(chapters)
  /\ cbWrite' = "pending"
  /\ cbResult' = "pending"
  /\ UNCHANGED <<clipboard, copied>>
  /\ UNCHANGED <<variant, service, hookVars, appVars, parseVars, pdfVars, cleanVars>>

\* navigator.clipboard missing, or writeText throwing at once: the catch
\* block, return false
CopyUnavailable ==
  /\ viewMode = "preview"
  /\ cbWrite # "pending"
  /\ cbText' = FullContent(chapters)
  /\ cbWrite' = "threw"
  /\ cbResult' = "false"
  /\ UNCHANGED <<clipboard, copied>>
  /\ UNCHANGED <<variant, service, hookVars, appVars, parseVars, pdfVars, cleanVars>>

\* writeText resolves: return true, and handleCopy sets copied
WriteResolved ==
  /\ cbWrite = "pending"
  /\ clipboard' = cbText
  /\ cbWrite' = "resolved"
  /\ cbResult' = "true"
  /\ copied' = TRUE
  /\ UNCHANGED cbText
  /\ UNCHANGED <<variant, service, hookVars, appVars, parseVars, pdfVars, cleanVars>>

\* writeText rejects: the catch block, return false
WriteRejected ==
  /\ cbWrite = "pending"
  /\ cbWrite' = "rejected"
  /\ cbResult' = "false"
  /\ UNCHANGED <<cbText, clipboard, copied>>
  /\ UNCHANGED <<variant, service, hookVars, appVars, parseVars, pdfVars, cleanVars>>

\* setTimeout(() => setCopied(false), 2000)
CopiedExpired ==
  /\ copied
  /\ copied' = FALSE
  /\ UNCHANGED <<cbWrite, cbText, clipboard, cbResult>>
  /\ UNCHANGED <<variant, service, hookVars, appVars, parseVars, pdfVars, cleanVars>>

NextCopy ==
  \/ CopyStarted
  \/ CopyUnavailable
  \/ WriteResolved
  \/ WriteRejected
  \/ CopiedExpired

InitClipboard ==
  /\ PreviewOf(CopyLists)
  /\ InitExport

SpecCopy == InitClipboard /\ [][NextCopy]_vars

\* ------------------------------------------------------------ the PDF export
\* what splitTextToSize makes of a paragraph: a header (short, capitalised,
\* without a full stop) of one line, or plain text of one or of many lines
Heading == [header |-> TRUE, lines |-> 1]

Plain(n) == [header |-> FALSE, lines |-> n]

\* the contents as measured: none, short ones, and ones of more lines than a
\* page holds
PdfBodies ==
  {<<>>, <<Plain(1)>>, <<Heading, Plain(1)>>, <<Plain(LongBody)>>,
   <<Plain(LongBody), Plain(LongBody)>>, <<Heading, Plain(LongBody), Plain(1)>>}

\* a chapter as measured: the lines of its title at width 170 and its
\* non-blank paragraphs
PdfChapters == {[titleLines |-> t, body |-> b] : t \in {1, 2}, b \in PdfBodies}

PdfLists == UNION {[1..n -> PdfChapters] : n \in 0..MaxPdfBlocks}

\* the cover title as measured: it fits on one line at some font size from
\* 24 down, or it is wrapped at font size 12
Covers == {[fontSize |-> 24, lines |-> 1], [fontSize |-> 12, lines |-> 2],
           [fontSize |-> 12, lines |-> LongTitle]}

InitDownload ==
  /\ pdfVariant \in PdfVariants
  /\ pdfMode \in Modes
  /\ pdfCover \in (IF pdfVariant = "full" /\ pdfMode = "ebook" THEN Covers
                   ELSE {[fontSize |-> 24, lines |-> 1]})
  /\ pdfInput \in PdfLists
  /\ pdfDoc = NewDoc
  /\ pdfSaved = FALSE
  /\ PreviewOf({[k \in 1..Len(pdfInput) |-> [title |-> <<"a">>, content |-> <<"x">>]]})
  /\ InitCopy /\ InitClean

\* handleDownloadPDF: downloadPDF(chapters, topic, mode), pdf.save included
Download ==
  /\ viewMode = "preview"
  /\ ~pdfSaved
  /\ pdfDoc' = downloadPDF(pdfVariant, pdfInput, pdfCover, pdfMode)
  /\ pdfSaved' = TRUE
  /\ UNCHANGED <<pdfVariant, pdfMode, pdfCover, pdfInput>>
  /\ UNCHANGED <<variant, service, hookVars, appVars, parseVars, copyVars, cleanVars>>

NextPdf == Download

SpecPdf == InitDownload /\ [][NextPdf]_vars

\* ------------------------------------ the application with its PDF export
\* the chapters as pdf.splitTextToSize measures the short texts served to
\* the runs: a title of one line, a content of one paragraph of one line
Measured(chs) == [k \in 1..Len(chs) |-> [titleLines |-> 1, body |-> <<Plain(1)>>]]

\* ContentPreview's PDF button: handleDownloadPDF, which hands the chapters,
\* the topic and the current mode of the application to downloadPDF
ClickDownloadPDF ==
  /\ viewMode = "preview"
  /\ pdfMode' = mode
  /\ pdfInput' = Measured(chapters)
  /\ pdfDoc' = downloadPDF(pdfVariant, Measured(chapters), pdfCover, mode)
  /\ pdfSaved' = TRUE
  /\ UNCHANGED <<pdfVariant, pdfCover>>
  /\ UNCHANGED <<variant, service, hookVars, appVars, parseVars, copyVars, cleanVars>>

NextExport ==
  \/ SetTopic(<<"t">>)
  \/ SetApiKey(<<"k">>)
  \/ \E m \in Modes : SetMode(m)
  \/ ClickGenerate
  \/ ClickReset
  \/ ClickDownloadPDF
  \/ Network

SpecExport == InitComposed /\ [][NextExport]_vars

\* ============================================================== properties
\* ---- vocabulary of the properties, stated on positions, not by recursion
IsBlank(l) == \A j \in 1..Len(l) : IsSpace(l[j])

\* the j-th smallest element of a set of numbers
Nth(S, j) == CHOOSE x \in S : Cardinality({y \in S : y <= x}) = j

Breaks(c) == {j \in 1..Len(c) : c[j] = "\n"}

BreakAt(c, k) ==
  IF k = 0 THEN 0
  ELSE IF k > Cardinality(Breaks(c)) THEN Len(c) + 1
  ELSE Nth(Breaks(c), k)

LinesOf(c) ==
  [k \in 1..(Cardinality(Breaks(c)) + 1) |->
     SubSeq(c, BreakAt(c, k - 1) + 1, BreakAt(c, k) - 1)]

\* the non-blank lines of a response, in response order
ResponseLines(c) ==
  LET ls == LinesOf(c)
      keep == {k \in 1..Len(ls) : ~IsBlank(ls[k])}
  IN [j \in 1..Cardinality(keep) |-> ls[Nth(keep, j)]]

\* a string without the whitespace around it
Core(l) ==
  IF IsBlank(l) THEN <<>>
  ELSE LET ink == {j \in 1..Len(l) : ~IsSpace(l[j])}
       IN SubSeq(l, Nth(ink, 1), Nth(ink, Cardinality(ink)))

\* the length of the numbering at the very start of a line: digits and a dot,
\* the dot being optional or required
NumberingLen(l, dotOptional) ==
  LET d == Cardinality({k \in 1..Len(l) : \A j \in 1..k : IsDigit(l[j])})
      dot == d < Len(l) /\ l[d + 1] = "."
  IN IF d = 0 THEN 0
     ELSE IF dot THEN d + 1
     ELSE IF dotOptional THEN d ELSE 0

\* a line without its leading numbering and without surrounding whitespace
Entry(l, dotOptional) == Core(SubSeq(l, NumberingLen(l, dotOptional) + 1, Len(l)))

Entries(c, dotOptional) ==
  LET ls == ResponseLines(c) IN [j \in 1..Len(ls) |-> Entry(ls[j], dotOptional)]

NonEmpty(sq) == SelectSeq(sq, LAMBDA e : e # <<>>)

Take(sq, n) == SubSeq(sq, 1, Min(n, Len(sq)))

NumberText == << <<"1">>, <<"2">>, <<"3">>, <<"4">>, <<"5">>, <<"6">>, <<"7">>,
                 <<"8">>, <<"9">>, <<"1", "0">> >>

HasFetch(tr) == \E j \in 1..Len(tr) : tr[j].ev = "fetch"

ProgressCalls(tr) == SelectSeq(tr, LAMBDA e : e.ev = "setProgress")

\* ---- C1: a call of generateContent whose topic or API key is empty or
\* whitespace-only issues no request and leaves progress (in particular
\* {0,0}), chapters and isGenerating as they were.
C1_ValidationReturnChangesNothing ==
  [][(lastCall'.tick # lastCall.tick
        /\ (IsBlank(lastCall'.topic) \/ IsBlank(lastCall'.apiKey)))
     => (/\ progress' = progress
         /\ chapters' = chapters
         /\ isGenerating' = isGenerating
         /\ runs' = runs
         /\ orphans' = orphans
         /\ ~HasFetch(trace'))]_vars

C1_Witness ==
  /\ lastCall.tick = 1
  /\ lastCall.topic = <<" ">>
  /\ lastCall.apiKey = <<"k">>
  /\ progress = P(0, 0)
  /\ lastOutcome = ReturnedNothing

\* ---- C2: once a run has failed, at the outline request or at any
\* expansion request, chapters is empty and isGenerating is false; chapters
\* is empty as long as a run is in flight, so nothing partial is published.
C2_FailureLeavesNothingPublished ==
  \A r \in Slots :
    /\ runs[r].pc = "failed" => (chapters = <<>> /\ isGenerating = FALSE)
    /\ Live(r) => chapters = <<>>

C2_Witness ==
  \E r \in Slots :
    /\ runs[r].pc = "failed"
    /\ lastOutcome = Threw
    /\ Len(runs[r].subtopics) >= 2
    /\ \E k \in 1..Len(runs[r].subtopics) : runs[r].resp[k] # <<>>

\* ---- C3: whatever order the expansion responses arrive in, block i of the
\* published chapters carries the content returned for outline entry i.
C3_PublishedInOutlineOrder ==
  \A r \in Slots :
    (runs[r].pc = "done" /\ chapters # <<>>) =>
       /\ Len(chapters) = Len(runs[r].subtopics)
       /\ \A k \in 1..Len(chapters) : chapters[k].content = runs[r].resp[k]

C3_Witness ==
  \E r \in Slots :
    /\ runs[r].pc = "done"
    /\ runs[r].reordered
    /\ variant = "concurrent"
    /\ Len(chapters) >= 2
    /\ chapters[1].content # chapters[2].content

\* ---- C4: block i (0-based) of the published chapters is titled
\* "Chapter {i+1}: {outline[i]}" in ebook mode and outline[i] in chapter mode.
C4_Titles ==
  \A r \in Slots :
    (runs[r].pc = "done" /\ chapters # <<>>) =>
       /\ Len(chapters) = Len(runs[r].subtopics)
       /\ \A k \in 1..Len(chapters) :
            chapters[k].title =
              IF runs[r].mode = "ebook"
              THEN <<"C", "h", "a", "p", "t", "e", "r", " ">> \o NumberText[k]
                     \o <<":", " ">> \o runs[r].subtopics[k]
              ELSE runs[r].subtopics[k]

C4_Witness ==
  \E r \in Slots :
    /\ runs[r].pc = "done"
    /\ runs[r].mode = "ebook"
    /\ Len(chapters) >= 2
    /\ chapters[2].title = <<"C", "h", "a", "p", "t", "e", "r", " ", "2", ":", " ", "a", "b">>

\* ---- C5 as stated: a successful run started from {0,0} takes progress
\* through exactly {0,0}, {1,3}, {2,3}, {3,3}.
C5_Original ==
  (lastOutcome = ReturnedChapters /\ seen[1] = P(0, 0)) =>
     seen = <<P(0, 0), P(1, 3), P(2, 3), P(3, 3)>>

\* ---- C5 as amended: a successful run calls setProgress with {0,3}, {1,3},
\* {2,3}, {3,3} in this order; started from {0,0}, the values progress holds
\* between the handler's steps are {0,0}, {1,3}, {2,3}, {3,3} for a non-empty
\* outline and {0,0}, {1,3}, {3,3} for an empty one, current strictly
\* increasing either way.
C5_ProgressSteps ==
  \A r \in Slots :
    (runs[r].pc = "done" /\ lastOutcome = ReturnedChapters) =>
       /\ ProgressCalls(trace) = <<SetProgress(P(0, 3)), SetProgress(P(1, 3)),
                                   SetProgress(P(2, 3)), SetProgress(P(3, 3))>>
       /\ seen[1] = P(0, 0) =>
            /\ seen = IF runs[r].subtopics # <<>>
                      THEN <<P(0, 0), P(1, 3), P(2, 3), P(3, 3)>>
                      ELSE <<P(0, 0), P(1, 3), P(3, 3)>>
            /\ \A j \in 1..(Len(seen) - 1) : seen[j].current < seen[j + 1].current

C5_Witness ==
  \E r \in Slots :
    /\ runs[r].pc = "done"
    /\ lastOutcome = ReturnedChapters
    /\ runs[r].subtopics = <<>>
    /\ seen = <<P(0, 0), P(1, 3), P(3, 3)>>

\* ---- C6: once a call of generateContent has finished, by success, by
\* failure or by the validation return, isGenerating is false.
C6_FlagClearedOnEveryExit ==
  lastOutcome.kind \in {"returned", "threw"} => isGenerating = FALSE

C6_Witness ==
  /\ lastOutcome = Threw
  /\ isGenerating = FALSE
  /\ \E r \in Slots : runs[r].pc = "failed" /\ runs[r].subtopics # <<>>

C8_OneRunAtATime == Cardinality({r \in Slots : Live(r)}) <= 1

C8_Witness ==
  /\ isGenerating
  /\ orphans > 0
  /\ \E r \in Slots : runs[r].pc = "expand"

\* ---- C9 as stated: for a response of at most 10 non-blank lines, the
\* returned list has one entry per non-blank line, the line without its
\* numbering and surrounding whitespace.
C9_Original ==
  (pDone /\ Len(ResponseLines(pContent)) <= 10) =>
     pResult = Entries(pContent, service = "loop")

\* ---- C9 as amended: for a response of at most 10 non-blank lines, the
\* returned list holds, in order, each non-blank line without the numbering
\* at its very start and without surrounding whitespace; the loop version
\* (dot optional) leaves out the lines that become empty, the chained version
\* (dot required) keeps them as empty entries.
C9_EntriesOfNonBlankLines ==
  (pDone /\ Len(ResponseLines(pContent)) <= 10) =>
     pResult = IF service = "loop" THEN NonEmpty(Entries(pContent, TRUE))
               ELSE Entries(pContent, FALSE)

C9_Witness ==
  /\ pDone
  /\ service = "loop"
  /\ Len(ResponseLines(pContent)) \in 2..10
  /\ Len(pResult) = Len(ResponseLines(pContent)) - 1

\* ---- C10 as stated: for a response of more than 10 non-blank lines, the
\* returned list is made of the first 10 non-blank lines, and of nothing else.
C10_Original ==
  (pDone /\ Len(ResponseLines(pContent)) > 10) =>
     pResult = Take(Entries(pContent, service = "loop"), 10)

\* ---- C10 as amended: for a response of more than 10 non-blank lines, the
\* chained version returns the entries of the first 10 non-blank lines; the
\* loop version returns the first 10 entries that are not empty, which reach
\* past the 10th line when an earlier line is a bare number.
C10_FirstTenEntries ==
  (pDone /\ Len(ResponseLines(pContent)) > 10) =>
     pResult = IF service = "loop" THEN Take(NonEmpty(Entries(pContent, TRUE)), 10)
               ELSE Take(Entries(pContent, FALSE), 10)

C10_Witness ==
  /\ pDone
  /\ service = "loop"
  /\ Len(ResponseLines(pContent)) > 10
  /\ Len(pResult) = 10
  /\ pResult[10] = Entry(ResponseLines(pContent)[11], TRUE)

\* ---- C11: the step that completes a run publishes exactly as many blocks
\* as the parsed outline has entries, never more than ten, and an outline of
\* fewer than ten entries, down to none, completes the same way: a run whose
\* outline is empty completes on the outline response itself, one with
\* entries once every entry has its response.
C11_OneBlockPerEntry ==
  [][\A r \in Slots :
       /\ (runs[r].pc # "done" /\ runs'[r].pc = "done") =>
            /\ Len(chapters') = Len(runs'[r].subtopics)
            /\ Len(chapters') <= 10
            /\ \A k \in 1..Len(chapters') : runs'[r].resp[k] = chapters'[k].content
       /\ (runs[r].pc = "outline" /\ runs'[r].pc = "expand") =>
            Len(runs'[r].subtopics) \in 1..10
       /\ (runs[r].pc = "outline" /\ runs'[r].pc = "done") =>
            runs'[r].subtopics = <<>>]_vars

C11_Witness ==
  \E r \in Slots :
    /\ runs[r].pc = "done"
    /\ Len(runs[r].subtopics) = 10
    /\ Len(chapters) = 10
    /\ lastOutcome = ReturnedChapters

\* ---- C12: whatever the interleaving of generateContent calls, response
\* arrivals and resetGeneration, progress.current never exceeds
\* progress.total, in the committed state and in every value handed to
\* setProgress on the way.
C12_CurrentWithinTotal ==
  /\ progress.current <= progress.total
  /\ \A j \in 1..Len(trace) :
       trace[j].ev = "setProgress" => trace[j].a <= trace[j].b
  /\ \A j \in 1..Len(seen) : seen[j].current <= seen[j].total

\* two activations in flight, the later one having taken progress back to
\* the outline step
C12_Witness ==
  \E r, q \in Slots :
    /\ runs[r].pc = "expand"
    /\ runs[q].pc = "outline"
    /\ progress = P(1, 3)

\* ---- C13: a call of resetGeneration, the one step of the hook that is
\* neither a call of generateContent nor the arrival of a response, leaves
\* chapters empty, progress at {0,0} and isGenerating false, whatever the
\* state before it and whatever requests are still in flight.
C13_ResetClearsEverything ==
  [][(runs' = runs /\ orphans' = orphans /\ lastCall' = lastCall) =>
       /\ chapters' = <<>>
       /\ progress' = P(0, 0)
       /\ isGenerating' = FALSE]_vars

\* reset while a run awaits its responses: only resetGeneration takes
\* progress back to {0,0}
C13_Witness ==
  /\ \E r \in Slots : Live(r)
  /\ chapters = <<>>
  /\ progress = P(0, 0)
  /\ isGenerating = FALSE

\* the reset of the application (handleReset, resetApp) is offered in the
\* preview only and leaves the same three values
C13_ResetInPreview ==
  [][(viewMode = "preview" /\ viewMode' = "input") =>
       /\ chapters' = <<>>
       /\ progress' = P(0, 0)
       /\ isGenerating' = FALSE]_vars

\* the current of the latest setProgress before position j of a trace, -1
\* when there is none
LastProgressBefore(tr, j) ==
  LET S == {i \in 1..(j - 1) : tr[i].ev = "setProgress"} IN
  IF S = {} THEN -1 ELSE tr[Nth(S, Cardinality(S))].a

\* ---- C14: in the events of a run, the outline request is issued with
\* current last set to 1, every expansion request with current last set to
\* 2, and current is set to 3 only directly after setChapters has published
\* one block per outline entry, every expansion request having been issued
\* and answered.
C14_ProgressBeforeRequests ==
  \A j \in 1..Len(trace) :
    /\ (trace[j].ev = "fetch" /\ trace[j].a = 0) => LastProgressBefore(trace, j) = 1
    /\ (trace[j].ev = "fetch" /\ trace[j].a = 1) => LastProgressBefore(trace, j) = 2
    /\ (trace[j].ev = "setProgress" /\ trace[j].a = 3) =>
         /\ j > 1
         /\ trace[j - 1].ev = "setChapters"
         /\ \E r \in Slots :
              /\ runs[r].pc = "done"
              /\ trace[j - 1].a = Len(runs[r].subtopics)
              /\ \A k \in 1..Len(runs[r].subtopics) :
                   /\ runs[r].resp[k] # <<>>
                   /\ \E i \in 1..(j - 1) : trace[i] = Ev("fetch", 1, k - 1)

C14_Witness ==
  \E r \in Slots :
    /\ runs[r].pc = "done"
    /\ Len(runs[r].subtopics) >= 2
    /\ lastOutcome = ReturnedChapters
    /\ trace[Len(trace) - 1] = SetProgress(P(3, 3))

\* the positions of a trace holding the event e
Positions(tr, e) == {j \in 1..Len(tr) : tr[j] = e}

\* ---- C15: the events of a run that passed the validation hold exactly one
\* outline request and at most one expansion request per outline index; a
\* run that failed holds exactly one failure message, with no request after
\* it, and a run that has not failed holds none.
C15_NoRetryOneMessage ==
  (trace # <<>> /\ trace[1] = Ev("setIsGenerating", 1, 0)) =>
     /\ Cardinality(Positions(trace, Ev("fetch", 0, 0))) = 1
     /\ \A i \in 0..9 : Cardinality(Positions(trace, Ev("fetch", 1, i))) <= 1
     /\ \A j \in 1..Len(trace) : trace[j].ev = "fetch" => trace[j].a \in {0, 1}
     /\ Cardinality({j \in 1..Len(trace) : trace[j].ev = "alert"}) =
          (IF lastOutcome = Threw THEN 1 ELSE 0)
     /\ \A j \in Positions(trace, Ev("alert", 1, 0)) :
          \A i \in (j + 1)..Len(trace) : trace[i].ev # "fetch"
     /\ lastOutcome = Threw =>
          \E r \in Slots : runs[r].pc = "failed" /\ runs[r].pending = {}

\* a failed run of the concurrent version, requests of its own abandoned and
\* still outstanding
C15_Witness ==
  /\ lastOutcome = Threw
  /\ orphans > 0
  /\ \E r \in Slots : runs[r].pc = "failed" /\ Len(runs[r].subtopics) >= 2
  /\ Cardinality(Positions(trace, Ev("alert", 1, 0))) = 1

\* what a run ends with, as a function of its outline, its mode and the
\* outcomes of its requests alone: chapters, progress, isGenerating and the
\* outcome handed to the caller
EndOf(run) ==
  IF run.pc = "done"
  THEN [chapters |-> [k \in 1..Len(run.subtopics) |->
                        [title |-> IF run.mode = "ebook"
                                   THEN <<"C", "h", "a", "p", "t", "e", "r", " ">>
                                          \o NumberText[k] \o <<":", " ">>
                                          \o run.subtopics[k]
                                   ELSE run.subtopics[k],
                         content |-> run.resp[k]]],
        progress |-> [current |-> 3, total |-> 3],
        isGenerating |-> FALSE,
        outcome |-> "returned"]
  ELSE [chapters |-> <<>>,
        progress |-> [current |-> IF run.subtopics = <<>> THEN 1 ELSE 2, total |-> 3],
        isGenerating |-> FALSE,
        outcome |-> "threw"]

\* ---- C16: the sequential and the concurrent version of generateContent
\* end a run in the same state: in either version, and whatever the order
\* in which the responses arrive, the step that settles a run leaves
\* chapters, progress and isGenerating (and the outcome for the caller) equal
\* to one function of the outline, the mode and the request outcomes, a
\* function that does not depend on the version.
C16_SameEndInBothVersions ==
  [][\A r \in Slots :
       (Live(r) /\ runs'[r].pc \in {"done", "failed"}) =>
          [chapters |-> chapters', progress |-> progress',
           isGenerating |-> isGenerating', outcome |-> lastOutcome'.kind]
            = EndOf(runs'[r])]_vars

\* the concurrent version, responses arrived out of order, ended as the
\* sequential one ends
C16_Witness ==
  \E r \in Slots :
    /\ variant = "concurrent"
    /\ runs[r].pc = "done"
    /\ runs[r].reordered
    /\ Len(runs[r].subtopics) = 3
    /\ runs[r].resp[1] # runs[r].resp[3]
    /\ [chapters |-> chapters, progress |-> progress,
        isGenerating |-> isGenerating, outcome |-> lastOutcome.kind] = EndOf(runs[r])

C18_PreviewOnlyOnSuccess ==
  [][/\ (viewMode = "input" /\ viewMode' = "preview") =>
          \E r \in Slots : Live(r) /\ runs'[r].pc = "done"
     /\ (\E r \in Slots : Live(r) /\ runs'[r].pc = "failed") => viewMode' = "input"
     /\ (lastCall'.tick # lastCall.tick /\ runs' = runs) => viewMode' = "input"]_vars

\* a call turned away, the view still on the form
C18_Witness ==
  /\ viewMode = "input"
  /\ trace = <<Ev("alert", 0, 0)>>
  /\ lastOutcome = ReturnedNothing
  /\ \E r \in Slots : runs[r].pc = "failed"

\* the text of one block as the clipboard export is to render it
BlockText(b) ==
  <<"#", " ">> \o b.title \o <<"\n", "\n">> \o b.content
    \o <<"\n", "\n", "-", "-", "-", "\n", "\n">>

\* t is the texts of the blocks of chs one after the other, in the order of
\* chs: block k occupies the positions after those of blocks 1..k-1
IsConcatenation(t, chs) ==
  LET end[k \in 0..Len(chs)] ==
        IF k = 0 THEN 0 ELSE end[k - 1] + Len(BlockText(chs[k]))
  IN /\ Len(t) = end[Len(chs)]
     /\ \A k \in 1..Len(chs) : SubSeq(t, end[k - 1] + 1, end[k]) = BlockText(chs[k])

\* ---- C19: copyToClipboard hands writeText the concatenation, in the order
\* of the list, of "# {title}\n\n{content}\n\n---\n\n" for every block; it
\* ends with true when the write succeeded, the clipboard then holding that
\* text, and with false, never by throwing, when the write failed, the
\* clipboard then being as before.
C19_CopyWritesAllBlocks ==
  /\ cbWrite # "none" => IsConcatenation(cbText, chapters)
  /\ cbWrite = "resolved" => (cbResult = "true" /\ clipboard = cbText)
  /\ cbWrite \in {"rejected", "threw"} => cbResult = "false"
  /\ cbResult \in {"none", "pending", "true", "false"}
  /\ cbResult = "true" => cbWrite = "resolved"
  /\ copied => clipboard # <<"o", "l", "d">>

C19_Witness ==
  /\ Len(chapters) = 2
  /\ chapters[1] # chapters[2]
  /\ cbWrite = "rejected"
  /\ cbResult = "false"
  /\ clipboard = FullContent(chapters)

\* the text drawn on the pages of a document: page, position on the page
Drawn(d) == UNION {{<<p, j>> : j \in 1..Len(d.pages[p])} : p \in 1..Len(d.pages)}

\* the wrapped lines of the body of a measured chapter
WrappedLines(ch) ==
  LET upto[k \in 0..Len(ch.body)] ==
        IF k = 0 THEN 0 ELSE upto[k - 1] + ch.body[k].lines
  IN upto[Len(ch.body)]

\* the pages holding body text of block b
BodyPages(d, b) ==
  {pj[1] : pj \in {q \in Drawn(d) : /\ d.pages[q[1]][q[2]].block = b
                                    /\ d.pages[q[1]][q[2]].kind \in {"body", "header"}}}

\* ---- C20 as stated: downloadPDF draws no text line at a vertical position
\* greater than page height - 30, and a body whose wrapped line count times
\* the line height (6) exceeds the usable height of a page (297 - 30 - 30)
\* makes the document more than one page long.
C20_Original ==
  pdfSaved =>
    /\ \A pj \in Drawn(pdfDoc) : pdfDoc.pages[pj[1]][pj[2]].y <= 10 * (297 - 30)
    /\ \A b \in 1..Len(pdfInput) :
         WrappedLines(pdfInput[b]) * 6 > 297 - 30 - 30 => Len(pdfDoc.pages) > 1

\* ---- C20 as amended: downloadPDF draws no line of a chapter (title,
\* header or body text) above the top margin 30 or below page height - 30;
\* the footer lines of the ebook are drawn at page height - 10, and only
\* there, and the cover lines are positioned without any test; a body whose
\* wrapped line count times the line height exceeds the usable height of a
\* page has its lines on more than one page.
C20_ChapterLinesAboveBottomMargin ==
  pdfSaved =>
    /\ \A pj \in Drawn(pdfDoc) :
         LET t == pdfDoc.pages[pj[1]][pj[2]] IN
         /\ t.kind \in {"title", "header", "body"} =>
              (10 * 30 <= t.y /\ t.y <= 10 * (297 - 30))
         /\ t.kind = "footer" =>
              (t.y = 10 * (297 - 10) /\ pdfVariant = "full" /\ pdfMode = "ebook")
         /\ t.kind = "cover" => (pj[1] = 1 /\ pdfMode = "ebook")
    /\ \A b \in 1..Len(pdfInput) :
         WrappedLines(pdfInput[b]) * 6 > 297 - 30 - 30 =>
           Cardinality(BodyPages(pdfDoc, b)) > 1

\* an ebook of the full version: a long body broken over pages, its last
\* line of a page within one line of the bottom margin, footers below it
C20_Witness ==
  /\ pdfSaved
  /\ pdfVariant = "full"
  /\ pdfMode = "ebook"
  /\ \E b \in 1..Len(pdfInput) : WrappedLines(pdfInput[b]) >= 40
  /\ \E pj \in Drawn(pdfDoc) :
       /\ pdfDoc.pages[pj[1]][pj[2]].kind = "body"
       /\ pdfDoc.pages[pj[1]][pj[2]].y > 10 * (297 - 30 - 6)
  /\ \E pj \in Drawn(pdfDoc) :
       /\ pdfDoc.pages[pj[1]][pj[2]].kind = "footer"
       /\ pj[1] > 2

\* ------------------------------------------------------------- claim C21
\* the chapter text of the document: titles, headers and body lines
ChapterKinds == {"title", "header", "body"}

\* the places of the title lines of block b
TitlesOf(d, b) ==
  {pj \in Drawn(d) : /\ d.pages[pj[1]][pj[2]].kind = "title"
                     /\ d.pages[pj[1]][pj[2]].block = b}

\* the place of the first title line of block b
FirstTitle(d, b) ==
  CHOOSE pj \in TitlesOf(d, b) :
    \A qk \in TitlesOf(d, b) :
      pj[1] < qk[1] \/ (pj[1] = qk[1] /\ pj[2] <= qk[2])

\* the blocks that are to start on a page of their own
BreakingBlocks == {b \in 1..Len(pdfInput) : pdfMode = "ebook" \/ b > 1}

\* C21: in ebook mode every block, and in chapter mode every block but the
\* first, has its title drawn at the top margin (y = 30) of a page that
\* carries no text of an earlier block
C21_BlockStartsItsPage ==
  pdfSaved =>
    \A b \in BreakingBlocks :
      /\ TitlesOf(pdfDoc, b) # {}
      /\ LET pj == FirstTitle(pdfDoc, b)
         IN /\ pdfDoc.pages[pj[1]][pj[2]].y = Mm(30)
            /\ \A k \in 1..Len(pdfDoc.pages[pj[1]]) :
                 LET dr == pdfDoc.pages[pj[1]][k]
                 IN /\ dr.kind # "cover"
                    /\ dr.kind \in ChapterKinds => dr.block >= b

\* a second chapter of the full version after a chapter of a title alone,
\* which ends at y = 65: the second title is on a page of its own
C21_Witness ==
  /\ pdfSaved
  /\ pdfVariant = "full"
  /\ pdfMode = "chapter"
  /\ Len(pdfInput) = 2
  /\ pdfInput[1].body = <<>>
  /\ pdfInput[1].titleLines = 1
  /\ FirstTitle(pdfDoc, 2)[1] = 2
  /\ pdfDoc.pages[1][Len(pdfDoc.pages[1])].y = Mm(30)

\* ------------------------------------------------------------- claim C22
\* C22: sanitizing a title or a content twice gives the same string as
\* sanitizing it once
C22_SanitizeIdempotent ==
  Len(cleanOutputs) = 2 => cleanOutputs[2] = cleanOutputs[1]

\* a content that loses a markdown marker and a symbol and has its line
\* break doubled by the first pass, sanitized twice
C22_Witness ==
  /\ cleanKind = "content"
  /\ cleanInput = <<"*", "\n", "@">>
  /\ Len(cleanOutputs) = 2
  /\ cleanOutputs[1] = <<"\n", "\n">>

\* ------------------------------------------------------------- claim C23
\* the expansion requests of run r that had been answered when it ended
Answered(run) == {k \in 1..Len(run.results) : run.results[k].index >= 0}

\* C23: in the concurrent version the completion of a request that a
\* failed run left outstanding changes none of chapters, progress and
\* isGenerating and raises no failure message (nor reaches the caller)
C23_AbandonedChangeNothing ==
  [][(variant = "concurrent" /\ orphans' < orphans) =>
       /\ chapters' = chapters
       /\ progress' = progress
       /\ isGenerating' = isGenerating
       /\ trace' = trace
       /\ lastOutcome' = lastOutcome
       /\ uncaught' = uncaught
       /\ viewMode' = viewMode]_vars

\* a run of the concurrent version failed with requests of its own still
\* outstanding, and all of them have completed since
C23_Witness ==
  /\ variant = "concurrent"
  /\ lastOutcome = Threw
  /\ orphans = 0
  /\ \E r \in Slots :
       /\ runs[r].pc = "failed"
       /\ Cardinality(Answered(runs[r])) < Len(runs[r].subtopics) - 1
  /\ Cardinality(Positions(trace, Ev("alert", 1, 0))) = 1
  /\ ~isGenerating

\* ------------------------------------------------------------- claim C24
\* the requests issued by generateContent that have not completed: those a
\* live run awaits, and those a failed run abandoned
Outstanding ==
  orphans + Cardinality({r \in Slots : runs[r].pc = "outline"})
          + Cardinality(UNION {{<<r, k>> : k \in runs[r].pending} : r \in Slots})

\* C24: whenever isGenerating is false, no request issued by
\* generateContent is still outstanding
C24_NoRequestWhenIdle == ~isGenerating => Outstanding = 0

\* ------------------------------------------------------------- claim C25
\* C25 as stated: from a state that resetGeneration has left, chapters
\* stays empty and progress stays {0,0} in every step that is not a call of
\* generateContent, a run in flight or not
C25_Original ==
  [][(chapters = <<>> /\ progress = P(0, 0) /\ lastCall' = lastCall) =>
       (chapters' = <<>> /\ progress' = P(0, 0))]_vars

\* C25 as amended: from a state that resetGeneration has left with no run
\* in flight, chapters stays empty and progress stays {0,0} in every step
\* that is not a call of generateContent, the completion of the requests
\* that a failed run abandoned included
C25_ResetStaysWhenIdle ==
  [][(chapters = <<>> /\ progress = P(0, 0) /\ Idle /\ lastCall' = lastCall) =>
       (chapters' = <<>> /\ progress' = P(0, 0))]_vars

\* a reset after the failure of a run that abandoned requests, all of them
\* completed, no run in flight
C25_Witness ==
  /\ variant = "concurrent"
  /\ Idle
  /\ chapters = <<>>
  /\ progress = P(0, 0)
  /\ lastOutcome = Threw
  /\ orphans = 0
  /\ \E r \in Slots :
       /\ runs[r].pc = "failed"
       /\ Len(runs[r].subtopics) = 2
       /\ Answered(runs[r]) = {}

\* ------------------------------------------------------------- claim C26
\* C26: in the composed application the preview is shown only with
\* isGenerating false and no run in flight, and the reset (the one step
\* that takes progress back to {0,0}) is taken from the preview only, so
\* never while a run is in flight
C26_ResetOnlyWhenIdle ==
  [][/\ viewMode = "preview" => (~isGenerating /\ Idle)
     /\ (progress' = P(0, 0) /\ progress # P(0, 0)) =>
          (viewMode = "preview" /\ ~isGenerating /\ Idle)]_vars

\* the application back in the input view after the reset of a finished run
C26_Witness ==
  /\ viewMode = "input"
  /\ progress = P(0, 0)
  /\ chapters = <<>>
  /\ ~isGenerating
  /\ \E r \in Slots : runs[r].pc = "done"

\* ------------------------------------------------------------- claim C27
\* the runs that a serializing caller has started: the most recent one
\* alone, every run taking the place of the one before it
StartedRuns == {r \in Slots : runs[r].pc # "free"}

\* C27: in serialized use progress.current is 3 only if the most recent run
\* succeeded and chapters holds its complete result, one chapter per outline
\* entry; after a failed run progress is at the step that failed, {1,3} for
\* the outline and {2,3} for an expansion (or {0,0} after a reset), never 3
C27_DoneOnlyOnSuccess ==
  /\ Cardinality(StartedRuns) <= 1
  /\ progress.current = 3 =>
       \E r \in StartedRuns :
         /\ runs[r].pc = "done"
         /\ progress = P(3, 3)
         /\ chapters = EndOf(runs[r]).chapters
         /\ Len(chapters) = Len(runs[r].subtopics)
  /\ \A r \in StartedRuns :
       runs[r].pc = "failed" =>
         /\ progress.current # 3
         /\ progress \in {EndOf(runs[r]).progress, P(0, 0)}
         /\ EndOf(runs[r]).progress \in {P(1, 3), P(2, 3)}

\* a run of two chapters has succeeded, its responses out of order, and a
\* call that the validation turned away has followed it
C27_Witness ==
  /\ progress = P(3, 3)
  /\ Len(chapters) = 2
  /\ lastOutcome = ReturnedNothing
  /\ \E r \in Slots : runs[r].pc = "done" /\ runs[r].reordered

\* ------------------------------------------------------------- claim C28
\* C28: in serialized use chapters is empty whenever isGenerating is true
\* and progress.current is below 3, setChapters([]) having been called
\* before the first request of the run was issued
C28_NoStaleChapters ==
  (isGenerating /\ progress.current < 3) =>
    /\ chapters = <<>>
    /\ \E j \in Positions(trace, Ev("setChapters", 0, 0)) :
         \A i \in 1..Len(trace) : trace[i].ev = "fetch" => j < i

\* a run at its second step, started directly after a run that succeeded:
\* progress was {3,3} when generateContent was called
C28_Witness ==
  /\ isGenerating
  /\ progress = P(2, 3)
  /\ seen[1] = P(3, 3)
  /\ chapters = <<>>

\* ------------------------------------------------------------- claim C29
\* the published chapters are those of a finished run started in mode m
GeneratedIn(m) ==
  \E r \in Slots : /\ runs[r].pc = "done"
                   /\ runs[r].mode = m
                   /\ chapters = EndOf(runs[r]).chapters

\* C29: every export hands downloadPDF the mode under which the chapters
\* it exports were generated
C29_ExportInGenerationMode ==
  [][(viewMode = "preview" /\ pdfSaved' /\ <<pdfMode, pdfInput, pdfDoc, pdfSaved>>' #
                                           <<pdfMode, pdfInput, pdfDoc, pdfSaved>>) =>
       GeneratedIn(pdfMode')]_vars

\* ------------------------------------------------------------- claim C30
\* the pages of the document that carry no cover, title, header or body line
BlankPages(d) ==
  {p \in 1..Len(d.pages) :
     \A k \in 1..Len(d.pages[p]) :
       d.pages[p][k].kind \notin (ChapterKinds \cup {"cover"})}

\* C30: for a non-empty chapters list every page of the saved document
\* carries at least one line of cover, title or body text, in either mode
C30_NoBlankPage ==
  (pdfSaved /\ pdfInput # <<>>) => BlankPages(pdfDoc) = {}

====
